---- MODULE Spec2Model ----
(***************************************************************************)
(* Database read view orchestration (src/box/read_view.c, read_view.h).    *)
(*                                                                         *)
(* The state is the live database catalog (engines, spaces), the read     *)
(* view aggregates, the objects the collaborators have allocated, and the  *)
(* record of the last API call.  Every API function is one action; the     *)
(* sequence of collaborator calls it makes is kept in `trace`, in program  *)
(* order.  The build is either a debug build or one with NDEBUG.  In a     *)
(* debug build a failed assert aborts the process: `assert_failed` names   *)
(* it and no further call happens.  With NDEBUG assert() is empty and the  *)
(* call runs on; `violated` names the asserted condition that was false.   *)
(***************************************************************************)
EXTENDS Integers, Sequences, FiniteSets, TLC

\* ------------------------------------------------------------- bounds
NumEngines == 2
NumSpaces == 2
MaxIndexId == 1
NumThreads == 2
NumTuples == 1
NumRV == 2

\* ------------------------------------------------------------- constants
\* A null pointer (owner, upgrade handle, tuple).
NULL == 0
\* Reference count of tuple_format_runtime before any read view exists.
RuntimeFormatInitRefs == 1
\* Return value recorded for a call that a failed assertion aborted.
ABORTED == -2
\* The thread that opens and closes read views (the space cache and the
\* engine list that read_view_open walks belong to it).
TxThread == 1

Engines == 1..NumEngines
SpaceIds == 1..NumSpaces
IndexIds == 0..MaxIndexId
Threads == 1..NumThreads
Tuples == 1..NumTuples
\* The struct read_view objects of the program, and the one that the
\* callers of Spec work with.
AllRVs == 1..NumRV
RVs == {1}
\* Two read views that are open at the same time.
TwoRVs == {1, NumRV}
\* The field definitions a space can have: those of the space s are s, and
\* NumSpaces + s after the space has been redefined.
FieldDefs == 1..(2 * NumSpaces)
\* Identities of the formats: the runtime format is 0.
FormatIds == 0..(NumRV * NumSpaces) \cup FieldDefs
\* Identities of the dictionaries; 0 is no dictionary.
DictIds == 0..(NumRV * NumSpaces)

\* tuple_format_runtime, the preallocated name-less format.
tuple_format_runtime == 0
\* The byte that TRASH() fills an object with in a debug build ('#').
POISON == 35
\* Identity of the dictionary tuple_dictionary_new() returns for the read
\* view r of space s: a new object each time.
NewDictId(r, s) == (r - 1) * NumSpaces + s
\* Identity of the upgrade read view space_upgrade_read_view_new() returns.
NewUpgradeId(r, s) == (r - 1) * NumSpaces + s

VARIABLES
    engines,        \* engine id -> [supports_read_view]
    space_cache,    \* space id -> struct space (the live space)
    rvs,            \* read view id -> struct read_view
    heap,           \* objects allocated and not yet freed
    refs,           \* [format, dict]: reference counters
    dict_names,     \* dictionary id -> the field definitions it was made of
    format_dict,    \* format id -> the dictionary the format refers to
    activated,      \* upgrade read views activated and not deactivated
    heap_error,     \* an object was freed twice or unreferenced below zero
    hist,           \* read view id -> its last open, activate, deactivate
                    \* or close call; again: it was activated, deactivated
                    \* and activated again; names: the needs_field_names
                    \* it was opened with
    call,           \* the last API call: its arguments and its result
    trace,          \* collaborator calls made by the last API call, in order
    assert_failed,  \* 0 or the line of the assertion that aborted the
                    \* process
    ndebug,         \* the build defines NDEBUG: assert() and TRASH() are
                    \* empty and index_read_view_check_owner does not exist
    reusable,       \* runtime_tuple_format_new returns a live format made
                    \* of equal field definitions again, instead of a new
                    \* one
    violated        \* 0 or the line of the first assertion of the last call
                    \* whose condition was false, evaluated or not

vars == <<engines, space_cache, rvs, heap, refs, dict_names, format_dict,
          activated, heap_error, hist, call, trace, assert_failed, ndebug,
          reusable, violated>>

\* Identity of the format runtime_tuple_format_new() returns for the
\* dictionary, of the field definitions fields, made for the read view r
\* of space s.  The function is not part of these sources, and what is
\* said of it differs: a new format for each space read view (lines
\* 365-368), or, runtime formats being reusable, one format for all read
\* views of a space (lines 296-299), so a format made of equal field
\* definitions that is still alive.  Which one is fixed for a run.
runtime_tuple_format_new(r, s, fields) ==
    IF reusable THEN fields ELSE (r - 1) * NumSpaces + s

\* ------------------------------------------------------------- values
Max(S) == CHOOSE x \in S : \A y \in S : y <= x

\* struct space as read_view.c reads it.  index_map[i] is TRUE when the
\* space has an index with id i; index_id_max is the greatest such id
\* (0 when the space has no index); fields is the identity of the field
\* definitions of the space.
Space(id, name, engine, temporary, upgrade, group_id, indexes) ==
    [id |-> id, name |-> name, engine |-> engine, temporary |-> temporary,
     upgrade |-> upgrade, group_id |-> group_id, fields |-> id,
     index_id_max |-> Max(indexes \cup {0}),
     index_map |-> [i \in 0..Max(indexes \cup {0}) |-> i \in indexes]]

\* The engine of the space s: the spaces are spread over the engines.
EngineOf(s) == ((s - 1) % NumEngines) + 1

\* A space of the default shape: not temporary, with a space upgrade in
\* progress and every index id in use.
TemplateSpace(s) == Space(s, s, EngineOf(s), FALSE, TRUE, s % 2, IndexIds)

\* Catalogs: every space has the default shape but the last one, which is
\* temporary or not, under upgrade or not, and has any set of indexes.
Catalogs ==
    { [s \in SpaceIds |->
         IF s = NumSpaces
         THEN Space(s, s, EngineOf(s), tmp, upg, s % 2, ixs)
         ELSE TemplateSpace(s)] :
      tmp \in BOOLEAN, upg \in BOOLEAN, ixs \in SUBSET IndexIds }

\* The catalogs in which the last space is not temporary and has field
\* definitions of its own or the same field definitions as the first space.
SameFieldCatalogs ==
    { [c EXCEPT ![NumSpaces].fields = f] :
         c \in {d \in Catalogs : ~d[NumSpaces].temporary},
         f \in {1, NumSpaces} }

\* The filters over S: a filter is the set of what it accepts, which is
\* everything, nothing or one element.
Filters(S) == {S, {}} \cup {{x} : x \in S}

\* struct read_view_opts.
ReadViewOpts ==
    [filter_space : Filters(SpaceIds),
     filter_index : Filters(IndexIds),
     needs_field_names : BOOLEAN,
     needs_space_upgrade : BOOLEAN,
     needs_temporary_spaces : BOOLEAN]

default_space_filter == SpaceIds
default_index_filter == IndexIds

read_view_opts_create ==
    [filter_space |-> default_space_filter,
     filter_index |-> default_index_filter,
     needs_field_names |-> FALSE,
     needs_space_upgrade |-> FALSE,
     needs_temporary_spaces |-> FALSE]

\* The collaborator call that fails during one API call (the first failure
\* ends the call, so one is enough): at is "none", or "engine" for the read
\* view factory of engine a, "dict" or "format" for the dictionary or the
\* format factory of space a, "index" for the read view factory of index b
\* of space a, "upgrade" for the activation of the upgrade of space a.
NoFault == [at |-> "none", a |-> 0, b |-> 0]
Fails(fault, at, a, b) == fault = [at |-> at, a |-> a, b |-> b]

\* The faults that change what a call does, given the calls tr it makes
\* when nothing fails: one for each fallible collaborator call in tr.
FaultPoints(tr) ==
    {NoFault} \cup
    { CASE tr[k].ev = "engine_create_read_view" ->
             [at |-> "engine", a |-> tr[k].a, b |-> 0]
        [] tr[k].ev = "tuple_dictionary_new" ->
             [at |-> "dict", a |-> tr[k].a, b |-> 0]
        [] tr[k].ev = "runtime_tuple_format_new" ->
             [at |-> "format", a |-> tr[k].a, b |-> 0]
        [] tr[k].ev = "index_create_read_view" ->
             [at |-> "index", a |-> tr[k].a, b |-> tr[k].b]
        [] tr[k].ev = "space_upgrade_read_view_activate" ->
             [at |-> "upgrade", a |-> tr[k].a, b |-> 0]
        [] OTHER -> NoFault : k \in 1..Len(tr) }

\* One collaborator call (or one store to rv->owner) in the trace.
Ev(ev, a, b, ok) == [ev |-> ev, a |-> a, b |-> b, ok |-> ok]

\* struct index_read_view: only the back reference is read here.
NullIndexRv == [isnull |-> TRUE, space |-> 0]
IndexRv(space_rv_id) == [isnull |-> FALSE, space |-> space_rv_id]

\* struct space_read_view.  rv is the back reference to the read view
\* (0 until read_view_add_space_cb sets it); upgrade is NULL or the handle
\* of the upgrade read view.
SpaceRv(rv, id, name, format, upgrade, group_id, index_id_max, index_map) ==
    [rv |-> rv, id |-> id, name |-> name, format |-> format,
     upgrade |-> upgrade, group_id |-> group_id,
     index_id_max |-> index_id_max, index_map |-> index_map]

\* struct read_view after read_view_close: status, which is not a field of
\* the struct, records that the read view is closed; owner, engines and
\* spaces are what the struct held when TRASH(rv) was reached.
Closed(rv) == [rv EXCEPT !.status = "closed"]

\* TRASH(rv), line 201: what the memory of the closed struct read_view
\* holds afterwards.  A debug build fills it with POISON, so the owner and
\* the list heads are the pointer made of that byte; with NDEBUG the macro
\* is empty and the struct keeps its owner and its list heads, which point
\* to the engine and space read views that have been freed.
TRASH(rv) ==
    IF ndebug THEN rv
    ELSE [status |-> "closed", owner |-> POISON,
          engines |-> << POISON >>, spaces |-> << POISON >>]

\* ------------------------------------------------------------- read_view.c

\* space_read_view_delete, the loop over index_map from slot i on.
RECURSIVE space_read_view_delete_indexes(_, _)
space_read_view_delete_indexes(space_rv, i) ==
    IF i > space_rv.index_id_max THEN <<>>
    ELSE LET index_rv == space_rv.index_map[i] IN
         (IF ~index_rv.isnull
          THEN << Ev("assert", 59, 0, index_rv.space = space_rv.id),
                  Ev("index_read_view_delete", space_rv.id, i, TRUE) >>
          ELSE <<>>)
         \o space_read_view_delete_indexes(space_rv, i + 1)

\* space_read_view_delete that keeps the reference to the format.
space_read_view_delete_no_unref(space_rv) ==
    space_read_view_delete_indexes(space_rv, 0)
    \o (IF space_rv.upgrade # NULL
        THEN << Ev("space_upgrade_read_view_delete", space_rv.id,
                   space_rv.upgrade, TRUE) >>
        ELSE <<>>)
    \o << Ev("free", space_rv.id, 0, TRUE) >>

\* space_read_view_delete: the collaborator calls it makes.
space_read_view_delete(space_rv) ==
    space_read_view_delete_indexes(space_rv, 0)
    \o (IF space_rv.upgrade # NULL
        THEN << Ev("space_upgrade_read_view_delete", space_rv.id,
                   space_rv.upgrade, TRUE) >>
        ELSE <<>>)
    \o << Ev("tuple_format_unref", space_rv.format, 0, TRUE),
          Ev("free", space_rv.id, 0, TRUE) >>

\* The loop that fills index_map and leaves the slot null when the index
\* read view factory fails.
RECURSIVE space_read_view_new_indexes_skip(_, _, _, _, _, _)
space_read_view_new_indexes_skip(space, opts, fault, i, space_rv, tr) ==
    IF i > space.index_id_max
    THEN [ok |-> TRUE, space_rv |-> space_rv, tr |-> tr]
    ELSE IF ~space.index_map[i]
    THEN space_read_view_new_indexes_skip(space, opts, fault, i + 1,
                                          space_rv, tr)
    ELSE LET accept == i \in opts.filter_index
             tr1 == Append(tr, Ev("filter_index", space.id, i, accept))
         IN IF ~accept
            THEN space_read_view_new_indexes_skip(space, opts, fault, i + 1,
                                                  space_rv, tr1)
            ELSE LET ok == ~Fails(fault, "index", space.id, i)
                     tr2 == Append(tr1, Ev("index_create_read_view",
                                           space.id, i, ok))
                 IN space_read_view_new_indexes_skip(
                        space, opts, fault, i + 1,
                        IF ok THEN [space_rv EXCEPT
                                       !.index_map[i] = IndexRv(space_rv.id)]
                        ELSE space_rv,
                        tr2)

\* space_read_view_new, the loop that fills index_map from slot i on.
\* Returns [ok, space_rv, tr]: ok is FALSE when NULL is returned.
RECURSIVE space_read_view_new_indexes(_, _, _, _, _, _)
space_read_view_new_indexes(space, opts, fault, i, space_rv, tr) ==
    IF i > space.index_id_max
    THEN [ok |-> TRUE, space_rv |-> space_rv, tr |-> tr]
    ELSE IF ~space.index_map[i]
    THEN space_read_view_new_indexes(space, opts, fault, i + 1, space_rv, tr)
    ELSE LET accept == i \in opts.filter_index
             tr1 == Append(tr, Ev("filter_index", space.id, i, accept))
         IN IF ~accept
            THEN space_read_view_new_indexes(space, opts, fault, i + 1,
                                             space_rv, tr1)
            ELSE LET ok == ~Fails(fault, "index", space.id, i)
                     tr2 == Append(tr1, Ev("index_create_read_view",
                                           space.id, i, ok))
                 IN IF ~ok
                    THEN [ok |-> FALSE, space_rv |-> space_rv,
                          tr |-> tr2 \o space_read_view_delete(space_rv)]
                    ELSE space_read_view_new_indexes(
                             space, opts, fault, i + 1,
                             [space_rv EXCEPT
                                 !.index_map[i] = IndexRv(space_rv.id)],
                             tr2)

\* space_read_view_new that sizes the index map by the greatest index id
\* the index filter accepts.
space_read_view_new_alloc_shrunk(space, opts, fault, format, upgrade, tr) ==
    LET accepted == {i \in 0..space.index_id_max :
                        space.index_map[i] /\ i \in opts.filter_index}
        space_rv == SpaceRv(0, space.id, space.name, format, upgrade,
                            space.group_id, Max(accepted \cup {0}),
                            [i \in 0..Max(accepted \cup {0}) |-> NullIndexRv])
        tr1 == tr \o << Ev("xmalloc", space.id, 0, TRUE),
                        Ev("tuple_format_ref", format, 0, TRUE) >>
    IN space_read_view_new_indexes(space, opts, fault, 0, space_rv, tr1)

\* space_read_view_new, from the allocation of the space read view on.
space_read_view_new_alloc(space, opts, fault, format, upgrade, tr) ==
    LET space_rv == SpaceRv(0, space.id, space.name, format, upgrade,
                            space.group_id, space.index_id_max,
                            [i \in 0..space.index_id_max |-> NullIndexRv])
        tr1 == tr \o << Ev("xmalloc", space.id, 0, TRUE),
                        Ev("tuple_format_ref", format, 0, TRUE) >>
    IN space_read_view_new_indexes(space, opts, fault, 0, space_rv, tr1)

\* space_read_view_new that snapshots the space upgrade whether the options
\* ask for it or not.
space_read_view_new_upgrade_unasked(r, space, opts, fault, format, tr) ==
    IF space.upgrade
    THEN space_read_view_new_alloc(
             space, opts, fault, format, NewUpgradeId(r, space.id),
             Append(tr, Ev("space_upgrade_read_view_new", space.id,
                           NewUpgradeId(r, space.id), TRUE)))
    ELSE space_read_view_new_alloc(space, opts, fault, format, NULL, tr)

\* space_read_view_new, from the upgrade resolution on.
space_read_view_new_upgrade(r, space, opts, fault, format, tr) ==
    IF opts.needs_space_upgrade /\ space.upgrade
    THEN space_read_view_new_alloc(
             space, opts, fault, format, NewUpgradeId(r, space.id),
             Append(tr, Ev("space_upgrade_read_view_new", space.id,
                           NewUpgradeId(r, space.id), TRUE)))
    ELSE space_read_view_new_alloc(space, opts, fault, format, NULL, tr)

\* space_read_view_new that uses the runtime format whatever the options.
space_read_view_new_shared_format(r, space, opts, fault) ==
    space_read_view_new_upgrade(r, space, opts, fault, tuple_format_runtime,
                                <<>>)

\* space_read_view_new for the read view r: [ok, space_rv, tr].
space_read_view_new(r, space, opts, fault) ==
    LET null == [ok |-> FALSE, space_rv |-> SpaceRv(0, 0, 0, 0, 0, 0, 0, <<>>),
                 tr |-> <<>>]
    IN
    IF opts.needs_field_names
    THEN LET dict_ok == ~Fails(fault, "dict", space.id, 0)
             format_ok == ~Fails(fault, "format", space.id, 0)
             dict == NewDictId(r, space.id)
             format == runtime_tuple_format_new(r, space.id, space.fields)
             tr1 == << Ev("tuple_dictionary_new", space.id, dict, dict_ok) >>
             tr2 == tr1 \o << Ev("runtime_tuple_format_new", space.id, format,
                                 format_ok),
                              Ev("tuple_dictionary_unref", space.id, dict,
                                 TRUE) >>
         IN IF ~dict_ok THEN [null EXCEPT !.tr = tr1]
            ELSE IF ~format_ok THEN [null EXCEPT !.tr = tr2]
            ELSE space_read_view_new_upgrade(r, space, opts, fault, format, tr2)
    ELSE space_read_view_new_upgrade(r, space, opts, fault,
                                     tuple_format_runtime, <<>>)

\* read_view_add_space_cb that does not set the back reference.
read_view_add_space_cb_no_backref(r, rv, space, opts, fault) ==
    IF ~engines[space.engine].supports_read_view
       \/ (space.temporary /\ ~opts.needs_temporary_spaces)
    THEN [ret |-> 0, rv |-> rv, tr |-> <<>>]
    ELSE LET accept == space.id \in opts.filter_space
             tr1 == << Ev("filter_space", space.id, 0, accept) >>
         IN IF ~accept THEN [ret |-> 0, rv |-> rv, tr |-> tr1]
            ELSE LET new == space_read_view_new(r, space, opts, fault) IN
                 IF ~new.ok
                 THEN [ret |-> -1, rv |-> rv, tr |-> tr1 \o new.tr]
                 ELSE [ret |-> 0,
                       rv |-> [rv EXCEPT !.spaces = Append(@, new.space_rv)],
                       tr |-> tr1 \o new.tr]

\* read_view_add_space_cb that asks the space filter first.
read_view_add_space_cb_filter_first(r, rv, space, opts, fault) ==
    LET accept == space.id \in opts.filter_space
        tr1 == << Ev("filter_space", space.id, 0, accept) >>
    IN IF ~accept
          \/ ~engines[space.engine].supports_read_view
          \/ (space.temporary /\ ~opts.needs_temporary_spaces)
       THEN [ret |-> 0, rv |-> rv, tr |-> tr1]
       ELSE LET new == space_read_view_new(r, space, opts, fault) IN
            IF ~new.ok
            THEN [ret |-> -1, rv |-> rv, tr |-> tr1 \o new.tr]
            ELSE [ret |-> 0,
                  rv |-> [rv EXCEPT !.spaces =
                             Append(@, [new.space_rv EXCEPT !.rv = r])],
                  tr |-> tr1 \o new.tr]

\* read_view_add_space_cb that does not look at the temporary flag.
read_view_add_space_cb_any_temporary(r, rv, space, opts, fault) ==
    IF ~engines[space.engine].supports_read_view
    THEN [ret |-> 0, rv |-> rv, tr |-> <<>>]
    ELSE LET accept == space.id \in opts.filter_space
             tr1 == << Ev("filter_space", space.id, 0, accept) >>
         IN IF ~accept THEN [ret |-> 0, rv |-> rv, tr |-> tr1]
            ELSE LET new == space_read_view_new(r, space, opts, fault) IN
                 IF ~new.ok
                 THEN [ret |-> -1, rv |-> rv, tr |-> tr1 \o new.tr]
                 ELSE [ret |-> 0,
                       rv |-> [rv EXCEPT !.spaces =
                                  Append(@, [new.space_rv EXCEPT !.rv = r])],
                       tr |-> tr1 \o new.tr]

\* read_view_add_space_cb: [ret, rv, tr].
read_view_add_space_cb(r, rv, space, opts, fault) ==
    IF ~engines[space.engine].supports_read_view
       \/ (space.temporary /\ ~opts.needs_temporary_spaces)
    THEN [ret |-> 0, rv |-> rv, tr |-> <<>>]
    ELSE LET accept == space.id \in opts.filter_space
             tr1 == << Ev("filter_space", space.id, 0, accept) >>
         IN IF ~accept THEN [ret |-> 0, rv |-> rv, tr |-> tr1]
            ELSE LET new == space_read_view_new(r, space, opts, fault) IN
                 IF ~new.ok
                 THEN [ret |-> -1, rv |-> rv, tr |-> tr1 \o new.tr]
                 ELSE [ret |-> 0,
                       rv |-> [rv EXCEPT !.spaces =
                                  Append(@, [new.space_rv EXCEPT !.rv = r])],
                       tr |-> tr1 \o new.tr]

\* space_foreach(read_view_add_space_cb), from the space with id s on: the
\* spaces are visited in the order of their ids, up to the first failure.
RECURSIVE space_foreach(_, _, _, _, _, _)
space_foreach(r, rv, s, opts, fault, tr) ==
    IF s > NumSpaces THEN [ret |-> 0, rv |-> rv, tr |-> tr]
    ELSE LET cb == read_view_add_space_cb(r, rv, space_cache[s], opts, fault)
         IN IF cb.ret # 0
            THEN [ret |-> -1, rv |-> cb.rv, tr |-> tr \o cb.tr]
            ELSE space_foreach(r, cb.rv, s + 1, opts, fault, tr \o cb.tr)

\* read_view_close, the loop over rv->spaces from position k on.
RECURSIVE read_view_close_spaces(_, _, _)
read_view_close_spaces(r, rv, k) ==
    IF k > Len(rv.spaces) THEN <<>>
    ELSE << Ev("assert", 193, 0, rv.spaces[k].rv = r) >>
         \o space_read_view_delete(rv.spaces[k])
         \o read_view_close_spaces(r, rv, k + 1)

\* read_view_close that deletes the engine read views first.
read_view_close_engines_first(r, rv) ==
    << Ev("assert", 189, 0, rv.owner = NULL) >>
    \o [k \in 1..Len(rv.engines) |->
           Ev("engine_read_view_delete", rv.engines[k], 0, TRUE)]
    \o read_view_close_spaces(r, rv, 1)

\* read_view_close without the assertion on the owner.
read_view_close_no_assert(r, rv) ==
    read_view_close_spaces(r, rv, 1)
    \o [k \in 1..Len(rv.engines) |->
           Ev("engine_read_view_delete", rv.engines[k], 0, TRUE)]

\* read_view_close: the collaborator calls it makes.
read_view_close(r, rv) ==
    << Ev("assert", 189, 0, rv.owner = NULL) >>
    \o read_view_close_spaces(r, rv, 1)
    \o [k \in 1..Len(rv.engines) |->
           Ev("engine_read_view_delete", rv.engines[k], 0, TRUE)]

\* The engine_foreach loop that goes on to the next engine when a read
\* view factory fails.
RECURSIVE read_view_open_engines_skip_failed(_, _, _, _)
read_view_open_engines_skip_failed(rv, e, fault, tr) ==
    IF e > NumEngines THEN [ok |-> TRUE, rv |-> rv, tr |-> tr]
    ELSE IF ~engines[e].supports_read_view
    THEN read_view_open_engines_skip_failed(rv, e + 1, fault, tr)
    ELSE LET ok == ~Fails(fault, "engine", e, 0)
             tr1 == Append(tr, Ev("engine_create_read_view", e, 0, ok))
         IN IF ~ok
            THEN read_view_open_engines_skip_failed(rv, e + 1, fault, tr1)
            ELSE read_view_open_engines_skip_failed(
                     [rv EXCEPT !.engines = Append(@, e)], e + 1, fault, tr1)

\* The engine_foreach loop that does not look at the engine flags.
RECURSIVE read_view_open_engines_any_engine(_, _, _, _)
read_view_open_engines_any_engine(rv, e, fault, tr) ==
    IF e > NumEngines THEN [ok |-> TRUE, rv |-> rv, tr |-> tr]
    ELSE LET ok == ~Fails(fault, "engine", e, 0)
             tr1 == Append(tr, Ev("engine_create_read_view", e, 0, ok))
         IN IF ~ok THEN [ok |-> FALSE, rv |-> rv, tr |-> tr1]
            ELSE read_view_open_engines_any_engine(
                     [rv EXCEPT !.engines = Append(@, e)], e + 1, fault, tr1)

\* read_view_open, the engine_foreach loop from engine e on: [ok, rv, tr].
RECURSIVE read_view_open_engines(_, _, _, _)
read_view_open_engines(rv, e, fault, tr) ==
    IF e > NumEngines THEN [ok |-> TRUE, rv |-> rv, tr |-> tr]
    ELSE IF ~engines[e].supports_read_view
    THEN read_view_open_engines(rv, e + 1, fault, tr)
    ELSE LET ok == ~Fails(fault, "engine", e, 0)
             tr1 == Append(tr, Ev("engine_create_read_view", e, 0, ok))
         IN IF ~ok THEN [ok |-> FALSE, rv |-> rv, tr |-> tr1]
            ELSE read_view_open_engines(
                     [rv EXCEPT !.engines = Append(@, e)], e + 1, fault, tr1)

\* read_view_open that binds the read view to the thread that opens it.
read_view_open_sets_owner(r, opts, fault) ==
    LET rv0 == [status |-> "open", owner |-> TxThread,
                engines |-> <<>>, spaces |-> <<>>]
        eng == read_view_open_engines(rv0, 1, fault,
                                      << Ev("owner", TxThread, 0, TRUE) >>)
        spc == space_foreach(r, eng.rv, 1, opts, fault, eng.tr)
    IN IF ~eng.ok
       THEN [ret |-> -1, rv |-> Closed(eng.rv),
             tr |-> eng.tr \o read_view_close_no_assert(r, eng.rv)]
       ELSE IF spc.ret # 0
       THEN [ret |-> -1, rv |-> Closed(spc.rv),
             tr |-> spc.tr \o read_view_close_no_assert(r, spc.rv)]
       ELSE [ret |-> 0, rv |-> spc.rv, tr |-> spc.tr]

\* read_view_open that returns -1 on a failure without closing the read
\* view it has built so far.
read_view_open_no_rollback(r, opts, fault) ==
    LET rv0 == [status |-> "open", owner |-> NULL,
                engines |-> <<>>, spaces |-> <<>>]
        eng == read_view_open_engines(rv0, 1, fault,
                                      << Ev("owner", NULL, 0, TRUE) >>)
        spc == space_foreach(r, eng.rv, 1, opts, fault, eng.tr)
    IN IF ~eng.ok
       THEN [ret |-> -1, rv |-> Closed(eng.rv), tr |-> eng.tr]
       ELSE IF spc.ret # 0
       THEN [ret |-> -1, rv |-> Closed(spc.rv), tr |-> spc.tr]
       ELSE [ret |-> 0, rv |-> spc.rv, tr |-> spc.tr]

\* read_view_open: [ret, rv, tr].  On a failure rv is the struct as
\* read_view_close leaves it before TRASH(rv).
read_view_open(r, opts, fault) ==
    LET rv0 == [status |-> "open", owner |-> NULL,
                engines |-> <<>>, spaces |-> <<>>]
        eng == read_view_open_engines(rv0, 1, fault,
                                      << Ev("owner", NULL, 0, TRUE) >>)
        spc == space_foreach(r, eng.rv, 1, opts, fault, eng.tr)
    IN IF ~eng.ok
       THEN [ret |-> -1, rv |-> Closed(eng.rv),
             tr |-> eng.tr \o read_view_close(r, eng.rv)]
       ELSE IF spc.ret # 0
       THEN [ret |-> -1, rv |-> Closed(spc.rv),
             tr |-> spc.tr \o read_view_close(r, spc.rv)]
       ELSE [ret |-> 0, rv |-> spc.rv, tr |-> spc.tr]

\* read_view_deactivate, the loop over rv->spaces.
read_view_deactivate_spaces(rv) ==
    LET RECURSIVE loop(_)
        loop(k) ==
            IF k > Len(rv.spaces) THEN <<>>
            ELSE (IF rv.spaces[k].upgrade # NULL
                  THEN << Ev("space_upgrade_read_view_deactivate",
                             rv.spaces[k].id, rv.spaces[k].upgrade, TRUE) >>
                  ELSE <<>>) \o loop(k + 1)
    IN loop(1)

\* read_view_deactivate that also drops the upgrades it deactivates.
read_view_deactivate_drops_upgrades(rv, cord) ==
    [ret |-> 0,
     rv |-> [rv EXCEPT !.owner = NULL,
                       !.spaces = [k \in 1..Len(rv.spaces) |->
                                      [rv.spaces[k] EXCEPT !.upgrade = NULL]]],
     tr |-> << Ev("assert", 225, 0, rv.owner = cord),
               Ev("owner", NULL, 0, TRUE) >>
            \o read_view_deactivate_spaces(rv)]

\* read_view_deactivate that does not clear the owner.
read_view_deactivate_keeps_owner(rv, cord) ==
    [ret |-> 0,
     rv |-> rv,
     tr |-> << Ev("assert", 225, 0, rv.owner = cord) >>
            \o read_view_deactivate_spaces(rv)]

\* read_view_deactivate that only asserts that the read view is activated.
read_view_deactivate_any_thread(rv, cord) ==
    [ret |-> 0,
     rv |-> [rv EXCEPT !.owner = NULL],
     tr |-> << Ev("assert", 225, 0, rv.owner # NULL),
               Ev("owner", NULL, 0, TRUE) >>
            \o read_view_deactivate_spaces(rv)]

\* read_view_deactivate called by the thread cord: [ret, rv, tr].
read_view_deactivate(rv, cord) ==
    [ret |-> 0,
     rv |-> [rv EXCEPT !.owner = NULL],
     tr |-> << Ev("assert", 225, 0, rv.owner = cord),
               Ev("owner", NULL, 0, TRUE) >>
            \o read_view_deactivate_spaces(rv)]

\* The loop of read_view_activate that returns -1 on a failure without
\* deactivating the read view.
RECURSIVE read_view_activate_spaces_no_deactivate(_, _, _, _, _)
read_view_activate_spaces_no_deactivate(rv, cord, fault, k, tr) ==
    IF k > Len(rv.spaces) THEN [ret |-> 0, rv |-> rv, tr |-> tr]
    ELSE IF rv.spaces[k].upgrade = NULL
    THEN read_view_activate_spaces_no_deactivate(rv, cord, fault, k + 1, tr)
    ELSE LET ok == ~Fails(fault, "upgrade", rv.spaces[k].id, 0)
             tr1 == Append(tr, Ev("space_upgrade_read_view_activate",
                                  rv.spaces[k].id, rv.spaces[k].upgrade, ok))
         IN IF ~ok
            THEN [ret |-> -1, rv |-> rv, tr |-> tr1]
            ELSE read_view_activate_spaces_no_deactivate(rv, cord, fault,
                                                         k + 1, tr1)

\* read_view_activate, the loop over rv->spaces from position k on; rv is
\* the read view with the owner already set.
RECURSIVE read_view_activate_spaces(_, _, _, _, _)
read_view_activate_spaces(rv, cord, fault, k, tr) ==
    IF k > Len(rv.spaces) THEN [ret |-> 0, rv |-> rv, tr |-> tr]
    ELSE IF rv.spaces[k].upgrade = NULL
    THEN read_view_activate_spaces(rv, cord, fault, k + 1, tr)
    ELSE LET ok == ~Fails(fault, "upgrade", rv.spaces[k].id, 0)
             tr1 == Append(tr, Ev("space_upgrade_read_view_activate",
                                  rv.spaces[k].id, rv.spaces[k].upgrade, ok))
         IN IF ~ok
            THEN LET deact == read_view_deactivate(rv, cord) IN
                 [ret |-> -1, rv |-> deact.rv, tr |-> tr1 \o deact.tr]
            ELSE read_view_activate_spaces(rv, cord, fault, k + 1, tr1)

\* read_view_activate that sets the owner after the loop.
read_view_activate_owner_last(rv, cord, fault) ==
    LET res == read_view_activate_spaces(
                   [rv EXCEPT !.owner = cord], cord, fault, 1,
                   << Ev("assert", 207, 0, rv.owner = NULL) >>)
    IN IF res.ret = 0
       THEN [res EXCEPT !.tr = Append(@, Ev("owner", cord, 0, TRUE))]
       ELSE res

\* read_view_activate without the assertion on the owner.
read_view_activate_no_assert(rv, cord, fault) ==
    read_view_activate_spaces(
        [rv EXCEPT !.owner = cord], cord, fault, 1,
        << Ev("owner", cord, 0, TRUE) >>)

\* read_view_activate called by the thread cord: [ret, rv, tr].
read_view_activate(rv, cord, fault) ==
    read_view_activate_spaces(
        [rv EXCEPT !.owner = cord], cord, fault, 1,
        << Ev("assert", 207, 0, rv.owner = NULL),
           Ev("owner", cord, 0, TRUE) >>)

\* space_upgrade_read_view_apply: a newly allocated tuple, or NULL.
space_upgrade_read_view_apply(tuple, ok) ==
    IF ok THEN tuple + NumTuples ELSE NULL

\* read_view_process_result that never applies the upgrade.
read_view_process_result_no_upgrade(rv, k, tuple, cord, apply_ok) ==
    [ret |-> tuple, rv |-> rv,
     tr |-> << Ev("assert", 245, 0, tuple # NULL),
               Ev("assert", 246, 0, rvs[rv.spaces[k].rv].owner = cord) >>]

\* read_view_process_result that only asserts that the read view is
\* activated.
read_view_process_result_any_thread(rv, k, tuple, cord, apply_ok) ==
    LET space_rv == rv.spaces[k]
        tr == << Ev("assert", 245, 0, tuple # NULL),
                 Ev("assert", 246, 0, rvs[space_rv.rv].owner # NULL) >>
    IN IF space_rv.upgrade # NULL
       THEN [ret |-> space_upgrade_read_view_apply(tuple, apply_ok),
             rv |-> rv,
             tr |-> Append(tr, Ev("space_upgrade_read_view_apply",
                                  space_rv.upgrade, tuple, apply_ok))]
       ELSE [ret |-> tuple, rv |-> rv, tr |-> tr]

\* read_view_process_result called by the thread cord on the space read
\* view at position k of rv->spaces: [ret, rv, tr], ret the tuple returned.
read_view_process_result(rv, k, tuple, cord, apply_ok) ==
    LET space_rv == rv.spaces[k]
        tr == << Ev("assert", 245, 0, tuple # NULL),
                 Ev("assert", 246, 0, rvs[space_rv.rv].owner = cord) >>
    IN IF space_rv.upgrade # NULL
       THEN [ret |-> space_upgrade_read_view_apply(tuple, apply_ok),
             rv |-> rv,
             tr |-> Append(tr, Ev("space_upgrade_read_view_apply",
                                  space_rv.upgrade, tuple, apply_ok))]
       ELSE [ret |-> tuple, rv |-> rv, tr |-> tr]

\* The iteration over rv->spaces from the tail to the head.
read_view_foreach_space_reverse(rv) ==
    [k \in 1..Len(rv.spaces) |-> rv.spaces[Len(rv.spaces) + 1 - k]]

\* read_view_foreach_space(space_rv, rv): the space read views that the
\* loop body sees, in order; rlist_foreach_entry walks the list from its
\* head until it is back at the list head.
read_view_foreach_space(rv) ==
    LET RECURSIVE walk(_)
        walk(k) == IF k > Len(rv.spaces) THEN <<>>
                   ELSE << rv.spaces[k] >> \o walk(k + 1)
    IN walk(1)

\* space_read_view_index that looks the index up in the live space.
space_read_view_index_live(space_rv, id) ==
    IF id <= space_cache[space_rv.id].index_id_max
       /\ space_cache[space_rv.id].index_map[id]
    THEN IndexRv(space_rv.id)
    ELSE NullIndexRv

\* space_read_view_index with the bound check off by one.
space_read_view_index_off_by_one(space_rv, id) ==
    IF id < space_rv.index_id_max THEN space_rv.index_map[id]
    ELSE NullIndexRv

\* space_read_view_index.
space_read_view_index(space_rv, id) ==
    IF id <= space_rv.index_id_max THEN space_rv.index_map[id]
    ELSE NullIndexRv

\* The space read view of rv that the back reference of an index read view
\* points to.
SpaceRvOf(rv, index_rv) ==
    CHOOSE space_rv \in {rv.spaces[k] : k \in 1..Len(rv.spaces)} :
        space_rv.id = index_rv.space

\* index_read_view_check_owner called by the thread cord: [ret, rv, tr].
index_read_view_check_owner(rv, index_rv, cord) ==
    [ret |-> 0, rv |-> rv,
     tr |-> << Ev("assert", 238, 0,
                  rvs[SpaceRvOf(rv, index_rv).rv].owner = cord) >>]

\* ------------------------------------------------------------- collaborators

Obj(kind, r, a, b) == [kind |-> kind, rv |-> r, a |-> a, b |-> b]

\* free() or a destructor: the object must be allocated.
Free(h, o) ==
    IF o \in h.heap THEN [h EXCEPT !.heap = @ \ {o}]
    ELSE [h EXCEPT !.err = TRUE]

\* tuple_dictionary_unref: the dictionary dies with its last reference.
DictUnref(h, d) ==
    IF h.dict[d] = 0 THEN [h EXCEPT !.err = TRUE]
    ELSE IF h.dict[d] = 1
    THEN Free([h EXCEPT !.dict[d] = 0, !.names[d] = 0], Obj("dict", 0, d, 0))
    ELSE [h EXCEPT !.dict[d] = @ - 1]

\* tuple_format_ref.
FormatRef(h, f) ==
    IF f # tuple_format_runtime /\ Obj("format", 0, f, 0) \notin h.heap
    THEN [h EXCEPT !.err = TRUE]
    ELSE [h EXCEPT !.format[f] = @ + 1]

\* tuple_format_unref: the format dies with its last reference and drops
\* its reference to its dictionary.
FormatUnref(h, f) ==
    IF h.format[f] = 0 THEN [h EXCEPT !.err = TRUE]
    ELSE IF h.format[f] > 1 THEN [h EXCEPT !.format[f] = @ - 1]
    ELSE IF f = tuple_format_runtime THEN [h EXCEPT !.err = TRUE]
    ELSE DictUnref(Free([h EXCEPT !.format[f] = 0, !.fdict[f] = 0],
                        Obj("format", 0, f, 0)),
                   h.fdict[f])

\* The effect of one collaborator call made on behalf of the read view r on
\* h = [heap, format, dict, names, fdict, activated, err].
\* tuple_dictionary_new copies the field definitions of the space as they
\* are when it is called.  runtime_tuple_format_new returns the format
\* e.b: a format that is alive is returned again (only reusable formats
\* can be) and the dictionary of the call, NewDictId(r, e.a), is left to
\* its caller; else the format is created without a reference and refers
\* to that dictionary.
Effect(h, r, e) ==
    CASE e.ev = "engine_create_read_view" /\ e.ok ->
           [h EXCEPT !.heap = @ \cup {Obj("engine_rv", r, e.a, 0)}]
      [] e.ev = "engine_read_view_delete" ->
           Free(h, Obj("engine_rv", r, e.a, 0))
      [] e.ev = "tuple_dictionary_new" /\ e.ok ->
           [h EXCEPT !.heap = @ \cup {Obj("dict", 0, e.b, 0)},
                     !.dict[e.b] = 1,
                     !.names[e.b] = space_cache[e.a].fields]
      [] e.ev = "runtime_tuple_format_new" /\ e.ok ->
           IF Obj("format", 0, e.b, 0) \in h.heap THEN h
           ELSE [h EXCEPT !.heap = @ \cup {Obj("format", 0, e.b, 0)},
                          !.format[e.b] = 0,
                          !.fdict[e.b] = NewDictId(r, e.a),
                          !.dict[NewDictId(r, e.a)] = @ + 1]
      [] e.ev = "tuple_dictionary_unref" -> DictUnref(h, e.b)
      [] e.ev = "tuple_format_ref" -> FormatRef(h, e.a)
      [] e.ev = "tuple_format_unref" -> FormatUnref(h, e.a)
      [] e.ev = "space_upgrade_read_view_new" ->
           [h EXCEPT !.heap = @ \cup {Obj("upgrade_rv", r, e.a, e.b)}]
      [] e.ev = "space_upgrade_read_view_delete" ->
           Free(h, Obj("upgrade_rv", r, e.a, e.b))
      [] e.ev = "xmalloc" ->
           [h EXCEPT !.heap = @ \cup {Obj("space_rv", r, e.a, 0)}]
      [] e.ev = "free" -> Free(h, Obj("space_rv", r, e.a, 0))
      [] e.ev = "index_create_read_view" /\ e.ok ->
           [h EXCEPT !.heap = @ \cup {Obj("index_rv", r, e.a, e.b)}]
      [] e.ev = "index_read_view_delete" ->
           Free(h, Obj("index_rv", r, e.a, e.b))
      [] e.ev = "space_upgrade_read_view_activate" /\ e.ok ->
           [h EXCEPT !.activated = @ \cup {e.b}]
      [] e.ev = "space_upgrade_read_view_deactivate" ->
           [h EXCEPT !.activated = @ \ {e.b}]
      [] OTHER -> h

\* The effect of the calls tr[k..] in order.
RECURSIVE Effects(_, _, _, _)
Effects(h, r, tr, k) ==
    IF k > Len(tr) THEN h
    ELSE LET h1 == Effect(h, r, tr[k]) IN
         IF h1.err /\ ~h.err THEN Effects(h1, r, tr, k + 1)
         ELSE Effects(h1, r, tr, k + 1)

\* Position of the first assertion of tr that fails, 0 if none does.
FirstFailedAssert(tr) ==
    LET bad == {k \in 1..Len(tr) : tr[k].ev = "assert" /\ ~tr[k].ok}
    IN IF bad = {} THEN 0 ELSE CHOOSE k \in bad : \A j \in bad : k <= j

\* ------------------------------------------------------------- actions

\* The calls that move a read view through its life cycle.
LifeCycleOps == {"open", "close", "activate", "deactivate"}

\* thread is the activating thread of a successful activate, else 0.
Hist(op, cord, ret, again, names) ==
    [op |-> op, thread |-> cord, ret |-> ret, again |-> again,
     names |-> names]

Call(op, r, cord, opts, a, b, ret) ==
    [op |-> op, rv |-> r, thread |-> cord, opts |-> opts, a |-> a, b |-> b,
     ret |-> ret]

\* The event is a call or a store, not an assertion.
NotAssert(e) == e.ev # "assert"

\* The API call op(a, b) of the thread cord on the read view r returns
\* res = [ret, rv, tr].  In a debug build the first assertion of tr that
\* fails aborts the process there: what the call has done before stays
\* done, the rest does not happen.  With NDEBUG no assertion is evaluated
\* and the call runs to its end.  A read view that the call has closed is
\* left as TRASH(rv) leaves it.
Return(op, r, cord, opts, a, b, res) ==
    \E bad \in {FirstFailedAssert(res.tr)} :
    \E tr \in {IF ndebug THEN SelectSeq(res.tr, NotAssert)
                ELSE IF bad # 0 THEN SubSeq(res.tr, 1, bad)
                ELSE res.tr} :
    \E h \in {Effects([heap |-> heap, format |-> refs.format,
                        dict |-> refs.dict, names |-> dict_names,
                        fdict |-> format_dict, activated |-> activated,
                        err |-> heap_error], r, tr, 1)} :
       /\ violated' = IF bad # 0 THEN res.tr[bad].a ELSE 0
       /\ trace' = tr
       /\ heap' = h.heap
       /\ refs' = [format |-> h.format, dict |-> h.dict]
       /\ dict_names' = h.names
       /\ format_dict' = h.fdict
       /\ activated' = h.activated
       /\ heap_error' = h.err
       /\ UNCHANGED <<ndebug, reusable>>
       /\ IF bad # 0 /\ ~ndebug
          THEN /\ assert_failed' = res.tr[bad].a
               /\ call' = Call(op, r, cord, opts, a, b, ABORTED)
               /\ UNCHANGED <<rvs, hist>>
          ELSE /\ assert_failed' = 0
               /\ call' = Call(op, r, cord, opts, a, b, res.ret)
               /\ rvs' = (r :> (IF res.rv.status = "closed"
                                THEN TRASH(res.rv) ELSE res.rv)) @@ rvs
               /\ hist' = IF op \in LifeCycleOps
                          THEN [hist EXCEPT ![r] = Hist(op,
                                   IF op = "activate" /\ res.ret = 0
                                   THEN cord ELSE 0,
                                   res.ret,
                                   @.again \/ (op = "activate" /\ res.ret = 0
                                               /\ @.op = "deactivate"),
                                   IF op = "open" THEN opts.needs_field_names
                                   ELSE @.names)]
                          ELSE hist

\* The state before any read view is opened, the engines one of engs, the
\* live spaces one of catalogs and the runtime formats reusable or not as
\* reuse says: no struct read_view has been initialized, so rvs is empty.
InitWith(engs, catalogs, reuse) ==
    /\ engines \in engs
    /\ space_cache \in catalogs
    /\ rvs = << >>
    /\ heap = {}
    /\ refs = [format |-> [f \in FormatIds |->
                             IF f = tuple_format_runtime
                             THEN RuntimeFormatInitRefs ELSE 0],
               dict |-> [d \in DictIds |-> 0]]
    /\ dict_names = [d \in DictIds |-> 0]
    /\ format_dict = [f \in FormatIds |-> 0]
    /\ activated = {}
    /\ heap_error = FALSE
    /\ hist = [r \in AllRVs |-> Hist("init", 0, 0, FALSE, FALSE)]
    /\ call = Call("init", 0, 0, read_view_opts_create, 0, 0, 0)
    /\ trace = <<>>
    /\ assert_failed = 0
    /\ ndebug \in BOOLEAN
    /\ reusable \in reuse
    /\ violated = 0

\* The engines of the life cycle runs: all of them support read views, or
\* none does and every read view is empty.
LifeCycleEngines ==
    {[e \in Engines |-> [supports_read_view |-> b]] : b \in BOOLEAN}

\* The runs from Init and InitOpen have one read view, of spaces that
\* differ in their field definitions: no format is made while one of equal
\* field definitions is alive, and runtime_tuple_format_new does the same
\* whether formats are reusable or not.
Init == InitWith(LifeCycleEngines, Catalogs, {FALSE})

\* The same with engines of which any support read views.
InitOpen ==
    InitWith([Engines -> [supports_read_view : BOOLEAN]], Catalogs, {FALSE})

\* The same with runtime formats that are reusable or not.
InitAlter ==
    InitWith([Engines -> [supports_read_view : BOOLEAN]], Catalogs, BOOLEAN)

\* The same with engines that all support read views, the last space with
\* the field definitions of the first or with its own.
InitTwo ==
    InitWith({[e \in Engines |-> [supports_read_view |-> TRUE]]},
             SameFieldCatalogs, BOOLEAN)

\* The read view r has been opened and not closed.
IsOpen(r) == r \in DOMAIN rvs /\ rvs[r].status = "open"

\* read_view_open(&rvs[r], &opts), opts one of optset, on a struct
\* read_view not used before.
OpenWith(r, optset) ==
    /\ assert_failed = 0
    /\ r \notin DOMAIN rvs
    /\ \E opts \in optset :
       \E fault \in FaultPoints(read_view_open(r, opts, NoFault).tr) :
       \E res \in {read_view_open(r, opts, fault)} :
          Return("open", r, TxThread, opts, 0, 0, res)
    /\ UNCHANGED <<engines, space_cache>>

\* read_view_open with any filters and flags.
OpenFiltered(r) == OpenWith(r, ReadViewOpts)

\* read_view_open with the filters and the needs_field_names of
\* read_view_opts_create and any other flags.
Open(r) ==
    OpenWith(r, {o \in ReadViewOpts :
                    /\ o.filter_space = default_space_filter
                    /\ o.filter_index = default_index_filter
                    /\ o.needs_field_names
                          = read_view_opts_create.needs_field_names})

\* read_view_open with the options of read_view_opts_create and any
\* needs_field_names.
OpenNames(r) ==
    OpenWith(r, {o \in ReadViewOpts :
                    /\ o.filter_space = default_space_filter
                    /\ o.filter_index = default_index_filter
                    /\ o.needs_space_upgrade
                          = read_view_opts_create.needs_space_upgrade
                    /\ o.needs_temporary_spaces
                          = read_view_opts_create.needs_temporary_spaces})

\* read_view_close(&rvs[r]).
Close(r) ==
    /\ assert_failed = 0
    /\ IsOpen(r)
    /\ \E res \in {[ret |-> 0, rv |-> Closed(rvs[r]),
                    tr |-> read_view_close(r, rvs[r])]} :
          Return("close", r, TxThread, read_view_opts_create, 0, 0, res)
    /\ UNCHANGED <<engines, space_cache>>

\* read_view_activate(&rvs[r]) in the thread cord.
Activate(r) ==
    /\ assert_failed = 0
    /\ IsOpen(r)
    /\ \E cord \in Threads :
       \E fault \in FaultPoints(read_view_activate(rvs[r], cord, NoFault).tr) :
       \E res \in {read_view_activate(rvs[r], cord, fault)} :
          Return("activate", r, cord, read_view_opts_create, 0, 0, res)
    /\ UNCHANGED <<engines, space_cache>>

\* read_view_deactivate(&rvs[r]) in the thread cord.
Deactivate(r) ==
    /\ assert_failed = 0
    /\ IsOpen(r)
    /\ \E cord \in Threads :
       \E res \in {read_view_deactivate(rvs[r], cord)} :
          Return("deactivate", r, cord, read_view_opts_create, 0, 0, res)
    /\ UNCHANGED <<engines, space_cache>>

\* read_view_process_result(space_rv, tuple) in the thread cord, space_rv
\* the k-th space read view of rvs[r].
ProcessResult(r) ==
    /\ assert_failed = 0
    /\ IsOpen(r)
    /\ \E cord \in Threads, k \in 1..Len(rvs[r].spaces),
          tuple \in Tuples \cup {NULL}, apply_ok \in BOOLEAN :
       \E res \in {read_view_process_result(rvs[r], k, tuple, cord,
                                            apply_ok)} :
          Return("process_result", r, cord, read_view_opts_create, k, tuple,
                 res)
    /\ UNCHANGED <<engines, space_cache>>

\* An index implementation looks the index read view up with
\* space_read_view_index(space_rv, id) and, when there is one, calls
\* index_read_view_check_owner on it before it reads data.  The function
\* exists in a debug build only (#ifndef NDEBUG, line 234).
CheckOwner(r) ==
    /\ ~ndebug
    /\ assert_failed = 0
    /\ IsOpen(r)
    /\ \E cord \in Threads, k \in 1..Len(rvs[r].spaces),
          id \in 0..(MaxIndexId + 1) :
       \E index_rv \in {space_read_view_index(rvs[r].spaces[k], id)} :
          /\ ~index_rv.isnull
          /\ \E res \in {index_read_view_check_owner(rvs[r], index_rv,
                                                     cord)} :
                Return("check_owner", r, cord, read_view_opts_create, k, id,
                       res)
    /\ UNCHANGED <<engines, space_cache>>

\* The index ids of a live space.
IndexesOf(space) == {i \in 0..space.index_id_max : space.index_map[i]}

\* The live space with the set ixs of index ids.
WithIndexes(space, ixs) ==
    [space EXCEPT !.index_id_max = Max(ixs \cup {0}),
                  !.index_map = [i \in 0..Max(ixs \cup {0}) |-> i \in ixs]]

\* The spaces that are altered: the one of any shape (see Catalogs).
AlteredSpaces == {NumSpaces}

\* The operations that alter a live space.
AlterOps == {"rename", "redefine", "create_index", "drop_index"}

\* The tx thread alters the live space s, while a read view is open, into
\* the space new.
Alter(op, s, i, new) ==
    /\ assert_failed = 0
    /\ \E r \in RVs : IsOpen(r)
    /\ space_cache' = [space_cache EXCEPT ![s] = new]
    /\ call' = Call(op, 0, TxThread, read_view_opts_create, s, i, 0)
    /\ trace' = <<>>
    /\ violated' = 0
    /\ UNCHANGED <<engines, rvs, heap, refs, dict_names, format_dict,
                   activated, heap_error, hist, assert_failed, ndebug,
                   reusable>>

\* The space s gets a new name.
AlterRename ==
    \E s \in AlteredSpaces :
        /\ space_cache[s].name <= NumSpaces
        /\ Alter("rename", s, 0,
                 [space_cache[s] EXCEPT !.name = @ + NumSpaces])

\* The space s gets new field definitions.
AlterFields ==
    \E s \in AlteredSpaces :
        /\ space_cache[s].fields <= NumSpaces
        /\ Alter("redefine", s, 0,
                 [space_cache[s] EXCEPT !.fields = NumSpaces + s])

\* The space s gets the index i, which may raise its max index id.
AlterCreateIndex ==
    \E s \in AlteredSpaces, i \in IndexIds :
        /\ i \notin IndexesOf(space_cache[s])
        /\ Alter("create_index", s, i,
                 WithIndexes(space_cache[s],
                             IndexesOf(space_cache[s]) \cup {i}))

\* The space s loses the index i.
AlterDropIndex ==
    \E s \in AlteredSpaces, i \in IndexIds :
        /\ i \in IndexesOf(space_cache[s])
        /\ Alter("drop_index", s, i,
                 WithIndexes(space_cache[s],
                             IndexesOf(space_cache[s]) \ {i}))

\* The read view life cycle: open with the default filters, then any calls.
Next ==
    \E r \in RVs :
        \/ Open(r)
        \/ Close(r)
        \/ Activate(r)
        \/ Deactivate(r)
        \/ ProcessResult(r)
        \/ CheckOwner(r)

Spec == Init /\ [][Next]_vars

\* Construction and destruction: open with any filters, then close.
NextOpen ==
    \E r \in RVs :
        \/ OpenFiltered(r)
        \/ Close(r)

SpecOpen == InitOpen /\ [][NextOpen]_vars

\* Two read views of one catalog, each opened with or without field names
\* and closed; two spaces of the catalog may have the same field definitions.
NextTwo ==
    \E r \in TwoRVs :
        \/ OpenNames(r)
        \/ Close(r)

SpecTwo == InitTwo /\ [][NextTwo]_vars

\* A read view that is open while the live spaces are altered.
NextAlter ==
    \/ \E r \in RVs : OpenNames(r) \/ Close(r)
    \/ AlterRename
    \/ AlterFields
    \/ AlterCreateIndex
    \/ AlterDropIndex

SpecAlter == InitAlter /\ [][NextAlter]_vars

\* ------------------------------------------------------------- types
TypeOK ==
    /\ heap_error \in BOOLEAN
    /\ ndebug \in BOOLEAN
    /\ reusable \in BOOLEAN
    /\ assert_failed \in {0, 59, 189, 193, 207, 225, 238, 245, 246}
    /\ violated \in {0, 59, 189, 193, 207, 225, 238, 245, 246}
    /\ assert_failed = IF ndebug THEN 0 ELSE violated
    /\ DOMAIN rvs \subseteq AllRVs
    /\ \A r \in DOMAIN rvs :
          /\ rvs[r].status \in {"open", "closed"}
          /\ IsOpen(r) => rvs[r].owner \in Threads \cup {NULL}
    /\ \A f \in FormatIds : format_dict[f] \in DictIds
    /\ \A d \in DictIds : dict_names[d] \in FieldDefs \cup {0}

\* ------------------------------------------------------------- claims

\* The events of the trace that allocate an object, and the event that
\* frees the object an event allocated.
Allocates(e) ==
    e.ok /\ e.ev \in {"engine_create_read_view", "xmalloc",
                      "space_upgrade_read_view_new", "index_create_read_view"}

FreeOf(e) ==
    Ev(CASE e.ev = "engine_create_read_view" -> "engine_read_view_delete"
         [] e.ev = "xmalloc" -> "free"
         [] e.ev = "space_upgrade_read_view_new" ->
              "space_upgrade_read_view_delete"
         [] e.ev = "index_create_read_view" -> "index_read_view_delete",
       e.a, e.b, TRUE)

\* Number of events of the trace equal to e.
Count(e) == Cardinality({k \in 1..Len(trace) : trace[k] = e})

\* The objects of the heap that the calls made for the read view r have
\* created: its engine, space, index and upgrade read views, the
\* dictionaries made for it and the formats that refer to one of those.
ObjectsOf(r) ==
    {o \in heap :
        \/ o.rv = r
        \/ o.kind = "dict" /\ \E s \in SpaceIds : o.a = NewDictId(r, s)
        \/ o.kind = "format"
              /\ \E s \in SpaceIds : format_dict[o.a] = NewDictId(r, s)}

\* C1: when read_view_open returns failure, every engine, space, upgrade
\* and index read view created during the call has been deleted exactly
\* once, every format reference taken has been released, and no object
\* created by the call is left allocated.
C1_FailedOpenRollsBack ==
    (call.op = "open" /\ call.ret = -1) =>
        /\ \A k \in 1..Len(trace) :
              Allocates(trace[k]) =>
                 /\ Count(FreeOf(trace[k])) = 1
                 /\ \E j \in (k + 1)..Len(trace) : trace[j] = FreeOf(trace[k])
        /\ \A f \in FormatIds :
              Count(Ev("tuple_format_ref", f, 0, TRUE))
                 = Count(Ev("tuple_format_unref", f, 0, TRUE))
        /\ ObjectsOf(call.rv) = {}
        /\ refs.format[tuple_format_runtime] = RuntimeFormatInitRefs
        /\ ~heap_error
        /\ rvs[call.rv].status = "closed"

\* A failed open that had created an engine read view, a private format, an
\* upgrade read view and an index read view before an index factory failed.
C1_Witness ==
    /\ call.op = "open" /\ call.ret = -1
    /\ \E k \in 1..Len(trace) :
          trace[k].ev = "engine_create_read_view" /\ trace[k].ok
    /\ \E k \in 1..Len(trace) :
          trace[k].ev = "runtime_tuple_format_new" /\ trace[k].ok
    /\ \E k \in 1..Len(trace) : trace[k].ev = "space_upgrade_read_view_new"
    /\ \E k \in 1..Len(trace) :
          trace[k].ev = "index_create_read_view" /\ trace[k].ok
    /\ \E k \in 1..Len(trace) :
          trace[k].ev = "index_create_read_view" /\ ~trace[k].ok

\* The eligibility of a live space as the documentation states it.
Eligible(space, opts) ==
    /\ engines[space.engine].supports_read_view
    /\ (~space.temporary \/ opts.needs_temporary_spaces)
    /\ space.id \in opts.filter_space

\* Positions of the space read views of the space s in the list of rv.
EntriesOf(rv, s) == {k \in 1..Len(rv.spaces) : rv.spaces[k].id = s}

\* C2: after a successful read_view_open the list of space read views has
\* exactly one entry for every space whose engine supports read views, that
\* is not temporary unless needs_temporary_spaces is set, and that the space
\* filter accepts, and no entry for any other space.
C2_ExactlyEligibleSpaces ==
    (call.op = "open" /\ call.ret = 0) =>
        /\ \A s \in SpaceIds :
              Cardinality(EntriesOf(rvs[call.rv], s))
                 = IF Eligible(space_cache[s], call.opts) THEN 1 ELSE 0
        /\ \A k \in 1..Len(rvs[call.rv].spaces) :
              rvs[call.rv].spaces[k].id \in SpaceIds

\* A successful open without needs_temporary_spaces that left out a
\* temporary space on a capable engine which the filter accepts, and
\* included another space.
C2_Witness ==
    /\ call.op = "open" /\ call.ret = 0
    /\ ~call.opts.needs_temporary_spaces
    /\ rvs[call.rv].spaces # <<>>
    /\ \E s \in SpaceIds :
          /\ space_cache[s].temporary
          /\ engines[space_cache[s].engine].supports_read_view
          /\ s \in call.opts.filter_space
          /\ EntriesOf(rvs[call.rv], s) = {}

\* C10: for every space read view built by a successful open and every
\* index id, space_read_view_index returns null if the id exceeds the max
\* index id the space had, null if the space had no index with that id or
\* the index filter rejected it, and an index read view otherwise.
C10_IndexLookup ==
    (call.op = "open" /\ call.ret = 0) =>
        \A k \in 1..Len(rvs[call.rv].spaces) :
        \A id \in 0..(MaxIndexId + 1) :
            LET space_rv == rvs[call.rv].spaces[k]
                space == space_cache[space_rv.id]
            IN space_read_view_index(space_rv, id).isnull
                  <=> \/ id > space.index_id_max
                      \/ ~space.index_map[id]
                      \/ id \notin call.opts.filter_index

\* A successful open after which lookups hit each case: an id above the
\* max index id, an id without an index, a filtered index, and an index
\* read view at the max index id of its space.
C10_Witness ==
    /\ call.op = "open" /\ call.ret = 0
    /\ \E k \in 1..Len(rvs[call.rv].spaces) :
          LET space_rv == rvs[call.rv].spaces[k]
              space == space_cache[space_rv.id]
          IN /\ space.index_id_max > 0
             /\ ~space.index_map[0]
             /\ ~space_read_view_index(space_rv, space.index_id_max).isnull
             /\ space_read_view_index(space_rv, space.index_id_max + 1).isnull
    /\ \E k \in 1..Len(rvs[call.rv].spaces) :
       \E id \in IndexIds :
          LET space_rv == rvs[call.rv].spaces[k]
              space == space_cache[space_rv.id]
          IN /\ id <= space.index_id_max
             /\ space.index_map[id]
             /\ id \notin call.opts.filter_index
             /\ space_read_view_index(space_rv, id).isnull

\* This step is the call op on the read view r.
Calls(op, r) == call'.op = op /\ call'.rv = r

\* The read view r is between a successful read_view_activate and the
\* matching read_view_deactivate.
Activated(r) == hist[r].op = "activate" /\ hist[r].ret = 0

\* C3: the owner is non-null only between a successful activate and its
\* matching deactivate, and it is then the thread that activated; after
\* any number of activate/deactivate repetitions the owner is null again.
C3_OwnerOnlyWhileActivated ==
    \A r \in AllRVs :
        /\ Activated(r) => IsOpen(r)
        /\ IsOpen(r) =>
              /\ rvs[r].owner # NULL <=> Activated(r)
              /\ Activated(r) => rvs[r].owner = hist[r].thread

\* A read view activated, deactivated, activated again and deactivated
\* again, its owner null again.
C3_Witness ==
    \E r \in RVs :
        /\ hist[r].op = "deactivate"
        /\ hist[r].again
        /\ rvs[r].owner = NULL

\* The upgrade read views of the read view r.
UpgradesOf(r) ==
    {rvs[r].spaces[k].upgrade : k \in 1..Len(rvs[r].spaces)} \ {NULL}

\* C4: if the activation of an upgrade fails during read_view_activate, the
\* call returns failure, every upgrade activated in the call has been
\* deactivated, and the owner is null: close and a new activate are legal.
C4_FailedActivateRestoresCreated ==
    (call.op = "activate" /\ call.ret # ABORTED
       /\ \E k \in 1..Len(trace) :
             trace[k].ev = "space_upgrade_read_view_activate" /\ ~trace[k].ok)
    => /\ call.ret = -1
       /\ \A k \in 1..Len(trace) :
             (trace[k].ev = "space_upgrade_read_view_activate" /\ trace[k].ok)
             => \E j \in (k + 1)..Len(trace) :
                   trace[j] = Ev("space_upgrade_read_view_deactivate",
                                 trace[k].a, trace[k].b, TRUE)
       /\ activated \cap UpgradesOf(call.rv) = {}
       /\ rvs[call.rv].owner = NULL
       /\ rvs[call.rv].status = "open"
       /\ FirstFailedAssert(read_view_close(call.rv, rvs[call.rv])) = 0
       /\ \A cord \in Threads :
             FirstFailedAssert(
                 read_view_activate(rvs[call.rv], cord, NoFault).tr) = 0

\* A failed activate that had activated one upgrade before the activation
\* of another one failed.
C4_Witness ==
    /\ call.op = "activate" /\ call.ret = -1
    /\ \E k \in 1..Len(trace) :
          trace[k].ev = "space_upgrade_read_view_activate" /\ trace[k].ok
    /\ \E k \in 1..Len(trace) :
          trace[k].ev = "space_upgrade_read_view_activate" /\ ~trace[k].ok

\* C5: read_view_close on an activated read view violates the assertion
\* owner == NULL (line 189), which aborts the process in a debug build; a
\* close that violates no assertion starts from a read view that is not
\* activated.
C5_CloseOnlyWhenNotActivated ==
    [][\A r \in RVs :
          Calls("close", r)
          => /\ violated' = 189 <=> Activated(r)
             /\ violated' = 0 <=> ~Activated(r)
             /\ ~ndebug => assert_failed' = violated']_vars

\* The process aborted in read_view_close on an activated read view.
C5_Witness ==
    /\ call.op = "close" /\ call.ret = ABORTED
    /\ assert_failed = 189
    /\ Activated(call.rv)

\* C6: after read_view_open the owner is null whichever thread opened the
\* read view, so an activate by any thread is legal and binds the owner to
\* that thread; the same holds after a deactivate.
C6_CrossThreadHandoff ==
    [][\A r \in RVs :
          (Calls("activate", r) /\ hist[r].op \in {"open", "deactivate"})
          => /\ rvs[r].owner = NULL
             /\ violated' = 0
             /\ assert_failed' = 0
             /\ call'.ret = 0 => rvs'[r].owner = call'.thread]_vars

\* A read view opened by one thread and activated by another one, which
\* owns it.
C6_Witness ==
    /\ call.op = "activate" /\ call.ret = 0
    /\ call.thread # TxThread
    /\ rvs[call.rv].owner = call.thread

\* C7: the owner assertions of read_view_process_result (line 246) and of
\* index_read_view_check_owner (line 238) hold exactly when the caller is
\* the thread that activated the read view last and has not deactivated it.
C7_OwnerAssertions ==
    (call.op \in {"process_result", "check_owner"}
       /\ (call.op = "process_result" => call.b # NULL))
    => /\ violated \in {0, 238, 246}
       /\ violated = 0
             <=> (Activated(call.rv) /\ hist[call.rv].thread = call.thread)
       /\ violated = 246 => call.op = "process_result"
       /\ violated = 238 => call.op = "check_owner"
       /\ ~ndebug => assert_failed = violated

\* The process aborted in read_view_process_result called by a thread
\* while another thread had the read view activated.
C7_Witness ==
    /\ call.op = "process_result"
    /\ assert_failed = 246
    /\ Activated(call.rv)
    /\ hist[call.rv].thread # call.thread

\* C8: read_view_activate on an activated read view violates the
\* assertion owner == NULL (line 207), whichever thread calls it, and a
\* debug build aborts there; in a call that violates no assertion the owner
\* never changes from one thread to another thread.
C8_ActivateNotReentrant ==
    [][\A r \in RVs :
          /\ (Calls("activate", r) /\ rvs[r].owner # NULL)
                => /\ violated' = 207
                   /\ ~ndebug => assert_failed' = 207
          /\ (IsOpen(r) /\ IsOpen(r)' /\ violated' = 0
                /\ rvs[r].owner # NULL /\ rvs'[r].owner # NULL)
                => rvs'[r].owner = rvs[r].owner]_vars

\* The process aborted in read_view_activate called by a thread while
\* another thread owned the read view.
C8_Witness ==
    /\ call.op = "activate" /\ call.ret = ABORTED
    /\ assert_failed = 207
    /\ rvs[call.rv].owner \notin {NULL, call.thread}

\* C9: read_view_deactivate violates the assertion owner == cord() (line
\* 225) exactly when the caller is not the thread that activated the read
\* view, or the read view is not activated; a debug build aborts there.
C9_DeactivateOnlyByOwner ==
    [][\A r \in RVs :
          Calls("deactivate", r)
          => /\ violated' = 225
                   <=> ~(Activated(r) /\ hist[r].thread = call'.thread)
             /\ ~ndebug => assert_failed' = violated']_vars

\* The process aborted in read_view_deactivate called by a thread while
\* another thread had the read view activated.
C9_Witness ==
    /\ call.op = "deactivate" /\ call.ret = ABORTED
    /\ assert_failed = 225
    /\ Activated(call.rv)
    /\ hist[call.rv].thread # call.thread

\* The space read views of all read views: <<read view, position>>.
AllSpaceRvs ==
    {e \in AllRVs \X (1..NumSpaces) : IsOpen(e[1]) /\ e[2] <= Len(rvs[e[1]].spaces)}

\* C11 as stated: a space read view of a read view opened without
\* needs_field_names has the shared runtime format, so two read views of
\* one space have the same format; a space read view of a read view opened
\* with needs_field_names has a format created for it in the open, made of
\* a dictionary of the field definitions of its space, which is not the
\* runtime format and not the format of any other space read view.  The
\* last part depends on runtime_tuple_format_new: it holds in the runs in
\* which formats are not reusable and fails in those in which they are.
C11_EveryFormatDistinct ==
    \A e \in AllSpaceRvs :
        LET space_rv == rvs[e[1]].spaces[e[2]] IN
        IF ~hist[e[1]].names
        THEN space_rv.format = tuple_format_runtime
        ELSE /\ space_rv.format # tuple_format_runtime
             /\ Obj("format", 0, space_rv.format, 0) \in heap
             /\ dict_names[format_dict[space_rv.format]]
                   = space_cache[space_rv.id].fields
             /\ \A o \in AllSpaceRvs \ {e} :
                   rvs[o[1]].spaces[o[2]].format # space_rv.format
             /\ (call.op = "open" /\ call.rv = e[1])
                   => \E j \in 1..Len(trace) :
                         trace[j] = Ev("runtime_tuple_format_new",
                                       space_rv.id, space_rv.format, TRUE)

\* Two read views open at the same time, both opened with
\* needs_field_names, each with space read views of the same two spaces,
\* which have equal field definitions.
C11_Witness ==
    /\ \A r \in TwoRVs :
          IsOpen(r) /\ hist[r].names /\ Len(rvs[r].spaces) >= 2
    /\ \E s, t \in SpaceIds :
          /\ s # t
          /\ space_cache[s].fields = space_cache[t].fields
          /\ \A r \in TwoRVs :
                EntriesOf(rvs[r], s) # {} /\ EntriesOf(rvs[r], t) # {}

\* C12: a space read view built by a successful open has an upgrade read
\* view if and only if needs_space_upgrade was set and the space had a
\* space upgrade in progress; otherwise its upgrade is null.
C12_UpgradeIffRequestedAndInFlight ==
    (call.op = "open" /\ call.ret = 0) =>
        \A k \in 1..Len(rvs[call.rv].spaces) :
            LET space_rv == rvs[call.rv].spaces[k]
                space == space_cache[space_rv.id]
                wanted == call.opts.needs_space_upgrade /\ space.upgrade
            IN /\ space_rv.upgrade # NULL <=> wanted
               /\ wanted => Obj("upgrade_rv", call.rv, space_rv.id,
                                space_rv.upgrade) \in heap
               /\ Cardinality({j \in 1..Len(trace) :
                                  /\ trace[j].ev = "space_upgrade_read_view_new"
                                  /\ trace[j].a = space_rv.id})
                     = IF wanted THEN 1 ELSE 0

\* A successful open with needs_space_upgrade that built a space read view
\* with an upgrade and one of a space without a space upgrade.
C12_Witness ==
    /\ call.op = "open" /\ call.ret = 0
    /\ call.opts.needs_space_upgrade
    /\ \E k \in 1..Len(rvs[call.rv].spaces) :
          rvs[call.rv].spaces[k].upgrade # NULL
    /\ \E k \in 1..Len(rvs[call.rv].spaces) :
          /\ rvs[call.rv].spaces[k].upgrade = NULL
          /\ ~space_cache[rvs[call.rv].spaces[k].id].upgrade

\* The calls of space_upgrade_read_view_apply in the trace.
Applies == {j \in 1..Len(trace) : trace[j].ev = "space_upgrade_read_view_apply"}

\* C13: read_view_process_result called by the owner returns the tuple it
\* was given, and calls nothing, when the space read view has no upgrade;
\* when it has one, it applies that upgrade to the tuple once and returns
\* the result: a tuple other than the one given, or null when the upgrade
\* fails.  It makes no other call and stores nothing.
C13_ProcessResult ==
    (call.op = "process_result" /\ violated = 0) =>
        LET space_rv == rvs[call.rv].spaces[call.a]
            tuple == call.b
        IN /\ rvs[call.rv].owner = call.thread
           /\ \A j \in 1..Len(trace) : trace[j].ev = "assert" \/ j \in Applies
           /\ IF space_rv.upgrade = NULL
              THEN call.ret = tuple /\ Applies = {}
              ELSE /\ Applies = {Len(trace)}
                   /\ trace[Len(trace)].a = space_rv.upgrade
                   /\ trace[Len(trace)].b = tuple
                   /\ trace[Len(trace)].ok
                         => call.ret \notin {NULL, tuple}
                   /\ ~trace[Len(trace)].ok => call.ret = NULL

\* The owner got an upgraded tuple for a tuple of a space read view with an
\* upgrade.
C13_Witness ==
    /\ call.op = "process_result"
    /\ violated = 0
    /\ rvs[call.rv].owner = call.thread
    /\ rvs[call.rv].spaces[call.a].upgrade # NULL
    /\ call.ret \notin {NULL, ABORTED, call.b}

\* C14: after a successful read_view_open the list of engine read views
\* has exactly one entry for every engine that supports read views and
\* none for any other engine, whether or not a space of that engine is in
\* the read view; no space of an engine without read view support has a
\* space read view.
C14_EngineReadViews ==
    (call.op = "open" /\ call.ret = 0) =>
        LET rv == rvs[call.rv] IN
        /\ \A e \in Engines :
              /\ Cardinality({k \in 1..Len(rv.engines) : rv.engines[k] = e})
                    = IF engines[e].supports_read_view THEN 1 ELSE 0
              /\ Obj("engine_rv", call.rv, e, 0) \in heap
                    <=> engines[e].supports_read_view
        /\ \A k \in 1..Len(rv.engines) : rv.engines[k] \in Engines
        /\ \A k \in 1..Len(rv.spaces) :
              engines[space_cache[rv.spaces[k].id].engine].supports_read_view

\* A successful open with an engine read view of an engine none of whose
\* spaces is in the read view, and with an engine without read view
\* support whose space the space filter would accept.
C14_Witness ==
    /\ call.op = "open" /\ call.ret = 0
    /\ \E k \in 1..Len(rvs[call.rv].engines) :
          \A j \in 1..Len(rvs[call.rv].spaces) :
             space_cache[rvs[call.rv].spaces[j].id].engine
                # rvs[call.rv].engines[k]
    /\ \E s \in SpaceIds :
          /\ ~engines[space_cache[s].engine].supports_read_view
          /\ ~space_cache[s].temporary
          /\ s \in call.opts.filter_space

\* The index filter of opts rejects every index of the live space.
RejectsAllIndexes(space, opts) ==
    \A i \in 0..space.index_id_max :
        space.index_map[i] => i \notin opts.filter_index

\* C15: when the index filter rejects every index of a space that is
\* included, read_view_open creates no index read view for that space, so
\* it does not fail on it; the space read view it builds has a null index
\* read view in every slot and the max index id of the live space.
C15_AllIndexesFiltered ==
    call.op = "open" =>
        /\ (\A j \in 1..Len(trace) :
               trace[j].ok \/ trace[j].ev \in {"filter_space", "filter_index"})
              => call.ret = 0
        /\ \A s \in SpaceIds :
              (Eligible(space_cache[s], call.opts)
                 /\ RejectsAllIndexes(space_cache[s], call.opts))
              => /\ \A j \in 1..Len(trace) :
                       ~(trace[j].ev = "index_create_read_view"
                           /\ trace[j].a = s)
                 /\ call.ret = 0 =>
                       \E k \in 1..Len(rvs[call.rv].spaces) :
                          LET space_rv == rvs[call.rv].spaces[k] IN
                          /\ space_rv.id = s
                          /\ space_rv.index_id_max
                                = space_cache[s].index_id_max
                          /\ DOMAIN space_rv.index_map
                                = 0..space_cache[s].index_id_max
                          /\ \A i \in 0..(MaxIndexId + 1) :
                                space_read_view_index(space_rv, i).isnull

\* A successful open that built a space read view without any index read
\* view of a space whose max index id is not 0 and whose indexes the index
\* filter all rejected.
C15_Witness ==
    /\ call.op = "open" /\ call.ret = 0
    /\ \E k \in 1..Len(rvs[call.rv].spaces) :
          LET space_rv == rvs[call.rv].spaces[k]
              space == space_cache[space_rv.id]
          IN /\ space.index_id_max > 0
             /\ \A i \in 0..space.index_id_max : space.index_map[i]
             /\ RejectsAllIndexes(space, call.opts)
             /\ space_rv.index_id_max = space.index_id_max
             /\ \A i \in 0..space.index_id_max : space_rv.index_map[i].isnull

\* C16: read_view_activate, read_view_deactivate, read_view_process_result
\* and index_read_view_check_owner change nothing of what read_view_open
\* built: the engine list, the space list and every field of every space
\* read view stay as they are, no object is allocated or freed and no
\* reference is taken or released; of the read view only the owner changes.
C16_StructureFrozen ==
    [][\A r \in RVs :
          (call'.rv = r /\ call'.op \in {"activate", "deactivate",
                                         "process_result", "check_owner"})
          => /\ rvs'[r].engines = rvs[r].engines
             /\ rvs'[r].spaces = rvs[r].spaces
             /\ rvs'[r].status = rvs[r].status
             /\ rvs' = [rvs EXCEPT ![r].owner = rvs'[r].owner]
             /\ heap' = heap
             /\ refs' = refs]_vars

\* A tuple processed in a read view with space read views, indexes and an
\* upgrade, activated for the second time.
C16_Witness ==
    /\ call.op = "process_result" /\ call.ret \notin {ABORTED, NULL}
    /\ hist[call.rv].again
    /\ Len(rvs[call.rv].spaces) >= 2
    /\ UpgradesOf(call.rv) # {}
    /\ \E k \in 1..Len(rvs[call.rv].spaces) :
          ~space_read_view_index(rvs[call.rv].spaces[k], 0).isnull

\* C17: an alteration of a live space (a new name, new field definitions,
\* an index created, which may raise the max index id, or dropped) changes
\* nothing of a space read view: not its name, not its max index id, not
\* what space_read_view_index returns for any id, and not the field
\* definitions in the dictionary of its format.
C17_AlterLeavesReadView ==
    [][call'.op \in AlterOps =>
          \A r \in {x \in RVs : IsOpen(x)} : \A k \in 1..Len(rvs[r].spaces) :
             /\ Len(rvs'[r].spaces) = Len(rvs[r].spaces)
             /\ rvs'[r].spaces[k].name = rvs[r].spaces[k].name
             /\ rvs'[r].spaces[k].index_id_max
                   = rvs[r].spaces[k].index_id_max
             /\ \A id \in 0..(MaxIndexId + 1) :
                   space_read_view_index(rvs[r].spaces[k], id)'
                      = space_read_view_index(rvs[r].spaces[k], id)
             /\ rvs'[r].spaces[k].format = rvs[r].spaces[k].format
             /\ format_dict'[rvs[r].spaces[k].format]
                   = format_dict[rvs[r].spaces[k].format]
             /\ dict_names'[format_dict[rvs[r].spaces[k].format]]
                   = dict_names[format_dict[rvs[r].spaces[k].format]]]_vars

\* A read view opened with needs_field_names of a space that has since got
\* another name, other field definitions and a greater max index id, and
\* has lost an index that the read view has.
C17_Witness ==
    \E r \in {x \in RVs : IsOpen(x)} : \E k \in 1..Len(rvs[r].spaces) :
        LET space_rv == rvs[r].spaces[k]
            space == space_cache[space_rv.id]
        IN /\ hist[r].names
           /\ space.name # space_rv.name
           /\ dict_names[format_dict[space_rv.format]] = space_rv.id
           /\ space.fields # dict_names[format_dict[space_rv.format]]
           /\ space.index_id_max > space_rv.index_id_max
           /\ \E i \in 0..space_rv.index_id_max :
                 ~space_rv.index_map[i].isnull /\ ~space.index_map[i]

\* The event is the allocation of a space read view.
IsXmalloc(e) == e.ev = "xmalloc"

\* C18: after a successful read_view_open, read_view_foreach_space visits
\* every space read view of the read view exactly once, in the order in
\* which read_view_open built and appended them.  The loop stores nothing,
\* so a second iteration walks the same list.
C18_ForeachInConstructionOrder ==
    (call.op = "open" /\ call.ret = 0) =>
        LET visited == read_view_foreach_space(rvs[call.rv])
            built == SelectSeq(trace, IsXmalloc)
        IN /\ Len(visited) = Len(built)
           /\ \A k \in 1..Len(built) : visited[k].id = built[k].a
           /\ \A k \in 1..Len(rvs[call.rv].spaces) :
                 Cardinality({j \in 1..Len(visited) :
                                 visited[j] = rvs[call.rv].spaces[k]}) = 1
           /\ \A j \in 1..Len(visited) :
                 \E k \in 1..Len(rvs[call.rv].spaces) :
                    visited[j] = rvs[call.rv].spaces[k]

\* A successful open that built more than one space read view.
C18_Witness ==
    /\ call.op = "open" /\ call.ret = 0
    /\ Len(read_view_foreach_space(rvs[call.rv])) >= 2
    /\ Len(SelectSeq(trace, IsXmalloc)) >= 2

\* Positions in the trace of the stores of v to rv->owner, and of the calls
\* of the collaborator function ev.
OwnerStores(v) == {j \in 1..Len(trace) : trace[j] = Ev("owner", v, 0, TRUE)}
CallsOf(ev) == {j \in 1..Len(trace) : trace[j].ev = ev}

\* C19: read_view_deactivate deactivates the upgrade of every space read
\* view first and clears the owner afterwards: every call of
\* space_upgrade_read_view_deactivate comes before the store of NULL to the
\* owner, so the owner is the calling thread during each of them.
C19_DeactivateBeforeOwnerCleared ==
    (call.op = "deactivate" /\ call.ret # ABORTED) =>
        /\ Cardinality(OwnerStores(NULL)) = 1
        /\ \A j \in CallsOf("space_upgrade_read_view_deactivate") :
              \A o \in OwnerStores(NULL) : j < o

\* C20: when read_view_activate fails at an upgrade, it has called
\* space_upgrade_read_view_deactivate once for each upgrade it had
\* activated in the call and for no other: not for the upgrade whose
\* activation failed and not for an upgrade later in the list.
C20_DeactivatesOnlyActivated ==
    (call.op = "activate" /\ call.ret = -1) =>
        \A u \in UpgradesOf(call.rv) :
            Cardinality({j \in CallsOf("space_upgrade_read_view_deactivate") :
                            trace[j].b = u})
               = Cardinality({j \in CallsOf("space_upgrade_read_view_activate") :
                                 trace[j].b = u /\ trace[j].ok})

\* The space read view has an upgrade.
HasUpgrade(space_rv) == space_rv.upgrade # NULL

\* The calls of space_upgrade_read_view_activate in the trace, in order.
IsActivate(e) == e.ev = "space_upgrade_read_view_activate"

\* C21: read_view_activate stores the caller to the owner before it
\* activates any upgrade; it activates the upgrades of the space read views
\* in list order, each at most once, and stops at the first failure; when
\* it returns success it has activated every upgrade exactly once.
C21_ActivateOrder ==
    (call.op = "activate" /\ call.ret # ABORTED) =>
        LET present == SelectSeq(rvs[call.rv].spaces, HasUpgrade)
            acts == SelectSeq(trace, IsActivate)
        IN /\ OwnerStores(call.thread) # {}
           /\ \A o \in OwnerStores(call.thread) :
                 \A j \in CallsOf("space_upgrade_read_view_activate") : o < j
           /\ Len(acts) <= Len(present)
           /\ \A k \in 1..Len(acts) :
                 /\ acts[k].b = present[k].upgrade
                 /\ acts[k].a = present[k].id
                 /\ ~acts[k].ok => k = Len(acts)
           /\ call.ret = 0 <=> (Len(acts) = Len(present)
                                 /\ \A k \in 1..Len(acts) : acts[k].ok)
           /\ call.ret = 0 => activated = UpgradesOf(call.rv)

\* A failed activate of a read view with two upgrades that stopped at the
\* first one.
C21_Witness ==
    /\ call.op = "activate" /\ call.ret = -1
    /\ Len(SelectSeq(rvs[call.rv].spaces, HasUpgrade)) >= 2
    /\ Len(SelectSeq(trace, IsActivate)) = 1

\* C22: in read_view_open every engine read view is created before any
\* space read view or index read view is; in read_view_close, and in the
\* rollback of a failed open, every space read view and index read view is
\* deleted before any engine read view is, and the index read views of a
\* space read view before the space read view itself.
C22_EnginesFirstAndLast ==
    (call.op \in {"open", "close"} /\ call.ret # ABORTED) =>
        /\ \A e \in CallsOf("engine_create_read_view") :
              \A j \in CallsOf("xmalloc") \cup CallsOf("index_create_read_view")
                       \cup CallsOf("filter_space") : e < j
        /\ \A e \in CallsOf("engine_read_view_delete") :
              \A j \in CallsOf("free") \cup CallsOf("index_read_view_delete")
                       \cup CallsOf("space_upgrade_read_view_delete") : j < e
        /\ \A i \in CallsOf("index_read_view_delete") :
              \E j \in CallsOf("free") : i < j /\ trace[j].a = trace[i].a

\* A close that deleted index read views, space read views and more than
\* one engine read view.
C22_Witness ==
    /\ call.op = "close" /\ call.ret # ABORTED
    /\ Cardinality(CallsOf("engine_read_view_delete")) >= 2
    /\ Cardinality(CallsOf("free")) >= 2
    /\ CallsOf("index_read_view_delete") # {}

\* The calls read_view_open makes for the spaces.
SpaceCalls ==
    CallsOf("filter_space") \cup CallsOf("filter_index")
    \cup CallsOf("tuple_dictionary_new") \cup CallsOf("runtime_tuple_format_new")
    \cup CallsOf("space_upgrade_read_view_new") \cup CallsOf("xmalloc")
    \cup CallsOf("tuple_format_ref") \cup CallsOf("index_create_read_view")

\* C23: when the read view factory of an engine fails in read_view_open,
\* the call fails without any call for a space (no filter, dictionary,
\* format, upgrade or index read view), no factory of a later engine is
\* called, and every engine read view created before is deleted.
C23_EngineFailure ==
    \A f \in CallsOf("engine_create_read_view") :
        (call.op = "open" /\ ~trace[f].ok) =>
            /\ call.ret = -1
            /\ SpaceCalls = {}
            /\ \A j \in CallsOf("engine_create_read_view") : j <= f
            /\ \A e \in Engines :
                  Count(Ev("engine_read_view_delete", e, 0, TRUE))
                     = Count(Ev("engine_create_read_view", e, 0, TRUE))
            /\ \A o \in heap : o.kind # "engine_rv"

\* A failed open in which the factory of an engine failed after an engine
\* read view of another engine had been created, with a space that would
\* have been included.
C23_Witness ==
    /\ call.op = "open" /\ call.ret = -1
    /\ \E j, f \in CallsOf("engine_create_read_view") :
          j < f /\ trace[j].ok /\ ~trace[f].ok
    /\ \E s \in SpaceIds : Eligible(space_cache[s], call.opts)

\* The collaborator calls that can fail while a space read view is built,
\* and the calls that only release something.
SpaceFactories ==
    {"tuple_dictionary_new", "runtime_tuple_format_new",
     "index_create_read_view"}
Releases ==
    {"assert", "tuple_dictionary_unref", "tuple_format_unref", "free",
     "index_read_view_delete", "space_upgrade_read_view_delete",
     "engine_read_view_delete"}

\* C24: read_view_open stops building at the first failure.  After a
\* failed dictionary, format or index factory call it only releases what it
\* has built: no later space is visited, filtered or built and no index
\* read view of a higher id is created.  After a failed dictionary or
\* format call for a space no upgrade is snapshotted and no index read view
\* is created for that space.
C24_StopAtFirstFailure ==
    \A f \in 1..Len(trace) :
        (call.op = "open" /\ trace[f].ev \in SpaceFactories /\ ~trace[f].ok)
        => /\ call.ret = -1
           /\ \A j \in (f + 1)..Len(trace) : trace[j].ev \in Releases
           /\ \A j \in 1..Len(trace) :
                 ~(trace[j].ev \in {"filter_space", "xmalloc"}
                     /\ trace[j].a > trace[f].a)
           /\ trace[f].ev = "index_create_read_view"
                 => \A j \in CallsOf("index_create_read_view") :
                       trace[j].a = trace[f].a => trace[j].b <= trace[f].b
           /\ trace[f].ev # "index_create_read_view"
                 => \A j \in CallsOf("space_upgrade_read_view_new")
                             \cup CallsOf("xmalloc")
                             \cup CallsOf("filter_index")
                             \cup CallsOf("index_create_read_view") :
                       trace[j].a # trace[f].a

\* A failed open in which the factory of an index failed although the space
\* has an index of a higher id that the index filter accepts, and a later
\* space would have been included.
C24_Witness ==
    /\ call.op = "open" /\ call.ret = -1
    /\ \E f \in CallsOf("index_create_read_view") :
          /\ ~trace[f].ok
          /\ \E i \in IndexIds :
                /\ i > trace[f].b
                /\ i \in IndexesOf(space_cache[trace[f].a])
                /\ i \in call.opts.filter_index
          /\ \E s \in SpaceIds :
                s > trace[f].a /\ Eligible(space_cache[s], call.opts)

\* C25: read_view_open calls the space filter at most once for a space,
\* and never for a space whose engine has no read view support or for a
\* temporary space without needs_temporary_spaces; it calls the index
\* filter only for a space that the space filter accepted and an id at
\* which the live space has an index, at most once for each.
C25_FiltersOnlyWhereNeeded ==
    call.op = "open" =>
        /\ \A j \in CallsOf("filter_space") :
              LET space == space_cache[trace[j].a] IN
              /\ engines[space.engine].supports_read_view
              /\ ~space.temporary \/ call.opts.needs_temporary_spaces
              /\ trace[j].ok <=> space.id \in call.opts.filter_space
              /\ \A i \in CallsOf("filter_space") :
                    trace[i].a = trace[j].a => i = j
        /\ \A j \in CallsOf("filter_index") :
              LET space == space_cache[trace[j].a] IN
              /\ Eligible(space, call.opts)
              /\ \E i \in CallsOf("filter_space") :
                    i < j /\ trace[i].a = space.id /\ trace[i].ok
              /\ trace[j].b \in IndexesOf(space)
              /\ trace[j].ok <=> trace[j].b \in call.opts.filter_index
              /\ \A i \in CallsOf("filter_index") :
                    (trace[i].a = trace[j].a /\ trace[i].b = trace[j].b)
                    => i = j

\* An open that called the index filter for a space with an index, and
\* the space filter for no space of those that the engine or the temporary
\* flag excludes, although the space filter accepts one of them.
C25_Witness ==
    /\ call.op = "open"
    /\ CallsOf("filter_index") # {}
    /\ \E s \in call.opts.filter_space :
          /\ ~Eligible(space_cache[s], call.opts)
          /\ \A j \in CallsOf("filter_space") : trace[j].a # s

\* The assertions of line n evaluated in the trace.
AssertsAt(n) == {j \in CallsOf("assert") : trace[j].a = n}

\* C26: every space read view in the list of a read view refers back to
\* that read view, and every index read view in its index map refers back
\* to that space read view; so the assertions of space_read_view_delete
\* (line 59) and read_view_close (line 193) hold whenever they are
\* evaluated: once for every index read view and every space read view
\* deleted by a close or by the rollback of a failed open.
C26_BackReferences ==
    /\ \A e \in AllSpaceRvs :
          LET space_rv == rvs[e[1]].spaces[e[2]] IN
          /\ space_rv.rv = e[1]
          /\ \A i \in 0..space_rv.index_id_max :
                ~space_rv.index_map[i].isnull
                => /\ space_rv.index_map[i].space = space_rv.id
                   /\ SpaceRvOf(rvs[e[1]], space_rv.index_map[i]) = space_rv
    /\ violated \notin {59, 193}
    /\ assert_failed \notin {59, 193}
    /\ (call.op \in {"open", "close"} /\ ~ndebug)
          => /\ \A j \in AssertsAt(59) \cup AssertsAt(193) : trace[j].ok
             /\ Cardinality(AssertsAt(59))
                   = Cardinality(CallsOf("index_read_view_delete"))
             /\ Cardinality(AssertsAt(193))
                   <= Cardinality(CallsOf("free"))
             /\ call.op = "close"
                   => Cardinality(AssertsAt(193))
                         = Cardinality(CallsOf("free"))

\* The rollback of a failed open that deleted a space read view of the
\* list and an index read view, while another read view with index read
\* views was open.
C26_Witness ==
    /\ call.op = "open" /\ call.ret = -1
    /\ AssertsAt(193) # {}
    /\ AssertsAt(59) # {}
    /\ \E e \in AllSpaceRvs :
          /\ e[1] # call.rv
          /\ ~space_read_view_index(rvs[e[1]].spaces[e[2]], 0).isnull

\* The space read views, of all read views, whose format is f.
UsersOf(f) == {e \in AllSpaceRvs : rvs[e[1]].spaces[e[2]].format = f}

\* C27 as stated (the part about the formats made for needs_field_names
\* depends on runtime_tuple_format_new: it holds in the runs in which
\* formats are not reusable and fails in those in which they are, where a
\* format lives as long as one of its space read views does):
\* between calls, after any opens, failed opens and closes, every
\* space read view holds one reference to its format: the reference count
\* of the runtime format is its initial value plus the number of space
\* read views that use it, and a format made for needs_field_names has one
\* reference, that of its space read view; such a format is destroyed,
\* with its dictionary, when its space read view is deleted: after a call,
\* no format that the call has released is allocated, and no other
\* dictionary is left allocated.
C27_FormatRefsBalanced ==
    /\ ~heap_error
    /\ refs.format[tuple_format_runtime]
          = RuntimeFormatInitRefs + Cardinality(UsersOf(tuple_format_runtime))
    /\ \A f \in FormatIds \ {tuple_format_runtime} :
          /\ refs.format[f] = Cardinality(UsersOf(f))
          /\ refs.format[f] <= 1
          /\ Obj("format", 0, f, 0) \in heap <=> UsersOf(f) # {}
          /\ format_dict[f] # 0 <=> UsersOf(f) # {}
          /\ UsersOf(f) # {}
                => /\ Obj("dict", 0, format_dict[f], 0) \in heap
                   /\ refs.dict[format_dict[f]] = 1
    /\ \A d \in DictIds \ {0} :
          Obj("dict", 0, d, 0) \in heap
             => \E f \in FormatIds : UsersOf(f) # {} /\ format_dict[f] = d
    /\ call.ret # ABORTED
          => \A j \in CallsOf("tuple_format_unref") :
                trace[j].a # tuple_format_runtime
                => Obj("format", 0, trace[j].a, 0) \notin heap

\* A close released the format made for needs_field_names of one of its
\* space read views, which is destroyed, while a space read view of the
\* other read view keeps its own.
C27_Witness ==
    /\ call.op = "close" /\ call.ret = 0
    /\ \E j \in CallsOf("tuple_format_unref") :
          /\ trace[j].a # tuple_format_runtime
          /\ Obj("format", 0, trace[j].a, 0) \notin heap
    /\ \E e \in AllSpaceRvs :
          /\ e[1] # call.rv
          /\ rvs[e[1]].spaces[e[2]].format # tuple_format_runtime
          /\ refs.format[rvs[e[1]].spaces[e[2]].format] = 1

====
